---- MODULE Spec2Model ----
(***************************************************************************)
(* Model of the movies backend: the JWT codec of core/security.py, the     *)
(* login handler of api/router/authentication.py and the ErrorHandler      *)
(* middleware of middleware/error_handler.py as installed by main.py.      *)
(*                                                                         *)
(* Time is the integer number of seconds since the epoch.  Optional values *)
(* (Python's None / a value) are sequences of length 0 / 1.                *)
(***************************************************************************)
EXTENDS Integers, Sequences, FiniteSets, TLC

(* ------------------------------ bounds -------------------------------- *)

\* the clock runs over MaxMinutes whole minutes ...
MaxMinutes == 3
\* ... and over the first MaxFineSeconds seconds of each of them
MaxFineSeconds == 2
\* the login requests, and the one that runs alone
Requests == {1, 2}
Sequential == {1}
Usernames == {"alice", "bob"}
Passwords == {"pw1", "pw2"}
\* UTC offsets of the server's local time zone, in seconds (scaled down)
TzOffsets == {0 - 60, 0, 120}
\* values of access_token_expire_minutes and refresh_token_expire_seconds
AccessMinutes == {1, 2}
RefreshSeconds == {0, 120}
Hosts == {"http://localhost:8000", "http://other:8000"}
SecretKeys == {"K1", "K2"}

None == <<>>
Some(x) == <<x>>

(* ------------------------------ settings ------------------------------ *)

\* timedelta(minutes=m) in seconds
SecondsPerMinute == 60

\* the fields class Settings declares
DeclaredAttrs ==
    {"base_url", "auth_path", "openapi_file_path", "project_name",
     "encoding", "api_v1_str", "secret_key", "access_token_expire_minutes",
     "refresh_token_expire_seconds", "server_name", "BACKEND_CORS_ORIGINS",
     "ALGORITHM", "SMTP_PORT", "SMTP_HOST", "SMTP_USER", "SMTP_PASSWORD",
     "EMAILS_FROM_EMAIL", "EMAILS_FROM_NAME",
     "EMAIL_RESET_TOKEN_EXPIRE_HOURS", "EMAIL_TEMPLATES_DIR",
     "EMAILS_ENABLED"}

\* the other Settings definition, the one login is written against: it
\* also carries the upper-case names login reads
CallerAttrs ==
    DeclaredAttrs \cup {"SERVER_HOST", "ACCESS_TOKEN_EXPIRE_MINUTES",
                        "PROJECT_NAME"}

\* a Settings object: the names it carries and the values the model uses
Settings(attrs, m, s) ==
    [attrs |-> attrs,
     base_url |-> "http://localhost:8000",
     secret_key |-> "K1",
     ALGORITHM |-> "HS256",
     access_token_expire_minutes |-> m,
     refresh_token_expire_seconds |-> s]

\* getattr(setting, name) succeeds
HasAttr(st, name) == name \in st.attrs

\* the server base URL is both issuer and audience root
SERVER_HOST(st) == st.base_url
ACCESS_TOKEN_EXPIRE_MINUTES(st) == st.access_token_expire_minutes

(* -------------------------------- clock ------------------------------- *)

\* int(time.time())
TimeTime(t) == t

\* int(datetime.utcnow().timestamp()): utcnow() is a naive datetime holding
\* UTC wall time, timestamp() reads a naive datetime as local time
UtcNowTimestamp(t, off) == t - off

\* datetime.now(): naive local wall time
DatetimeNow(t, off) == [type |-> "datetime", v |-> t + off]

(* ------------------------------ token codec --------------------------- *)

\* jsonable_encoder on a claim value: UUID -> str, datetime -> ISO string
EncodeValue(v) ==
    IF v.type = "UUID" THEN [type |-> "str", v |-> v.v]
    ELSE IF v.type = "datetime" THEN [type |-> "isostr", v |-> v.v]
    ELSE v

jsonable_encoder(p) ==
    [p EXCEPT !.jti = EncodeValue(p.jti),
              !.updated_at = EncodeValue(p.updated_at)]

\* HMAC of the signing input under a key
Sign(key, alg, claims) == [key |-> key, alg |-> alg, claims |-> claims]

\* jwt.encode: header.claims.signature
jwt_encode(claims, key, alg) ==
    [parts |-> 3, alg |-> alg, claims |-> claims,
     sig |-> Sign(key, alg, claims)]

\* the exp create_access_token computes
ExpireAt(expires_delta, st, t, off) ==
    IF expires_delta # None /\ expires_delta[1] # 0
    THEN UtcNowTimestamp(t, off) + expires_delta[1]
    ELSE UtcNowTimestamp(t, off)
         + SecondsPerMinute * st.access_token_expire_minutes

\* payload.update({'exp': ...}): the caller's dict after the call
PayloadAfterCreate(payload, expires_delta, st, t, off) ==
    [payload EXCEPT !.exp = ExpireAt(expires_delta, st, t, off)]

create_access_token(payload, expires_delta, st, t, off) ==
    jwt_encode(jsonable_encoder(
                   PayloadAfterCreate(payload, expires_delta, st, t, off)),
               st.secret_key, st.ALGORITHM)

RefreshDelta(st) == Some(st.refresh_token_expire_seconds)

create_refresh_token(payload, st, t, off) ==
    create_access_token(payload, RefreshDelta(st), st, t, off)

\* the options decode_token passes with a value of False; jwt.decode knows
\* verify_signature, verify_exp, verify_nbf, verify_aud, verify_iss, ...,
\* and "verify_subject" is none of its options
DecodeOptionsOff == {"verify_subject"}

\* jwt.decode: the exception it raises ("none" when it returns the claims)
jwt_decode(token, key, algorithms, optionsOff, audience, issuer, t) ==
    IF token.parts # 3 THEN "JWTError"
    ELSE IF token.alg \notin algorithms THEN "JWTError"
    ELSE IF /\ "verify_signature" \notin optionsOff
            /\ token.sig # Sign(key, token.alg, token.claims)
         THEN "JWTError"
    ELSE IF "verify_nbf" \notin optionsOff /\ token.claims.nbf > t
         THEN "JWTClaimsError"
    ELSE IF "verify_exp" \notin optionsOff /\ token.claims.exp < t
         THEN "ExpiredSignatureError"
    ELSE IF "verify_aud" \notin optionsOff /\ token.claims.aud # audience
         THEN "JWTClaimsError"
    ELSE IF "verify_iss" \notin optionsOff /\ token.claims.iss # issuer
         THEN "JWTClaimsError"
    ELSE "none"

\* isinstance(exc, cls) for the exceptions of jose: ExpiredSignatureError
\* and JWTClaimsError are subclasses of JWTError
IsInstance(exc, cls) ==
    \/ exc = cls
    \/ cls = "JWTError" /\ exc \in {"ExpiredSignatureError", "JWTClaimsError"}

\* the classes the except clauses of decode_token name, in their order
HandledByDecode == <<"ExpiredSignatureError", "JWTClaimsError", "JWTError">>

\* the body of decode_token for given options and except clauses: what it
\* returns and what it raises to its caller
DecodeWith(token, st, t, optionsOff, handled) ==
    LET exc == jwt_decode(token, st.secret_key, {st.ALGORITHM}, optionsOff,
                          st.base_url \o "/authentication/login",
                          st.base_url, t)
    IN  IF exc = "none"
        THEN [raised |-> "none", value |-> Some(token.claims)]
        ELSE IF \E i \in DOMAIN handled : IsInstance(exc, handled[i])
        THEN [raised |-> "none", value |-> None]
        ELSE [raised |-> exc, value |-> None]

\* decode_token with the check of exp switched off
decode_tokenNoExp(token, st, t) ==
    DecodeWith(token, st, t, DecodeOptionsOff \cup {"verify_exp"},
               HandledByDecode)

\* decode_token with the check of the signature switched off
decode_tokenNoSignature(token, st, t) ==
    DecodeWith(token, st, t, DecodeOptionsOff \cup {"verify_signature"},
               HandledByDecode)

\* decode_token with the check of the audience switched off
decode_tokenNoAud(token, st, t) ==
    DecodeWith(token, st, t, DecodeOptionsOff \cup {"verify_aud"},
               HandledByDecode)

\* decode_token without its last except clause
decode_tokenNoJWTError(token, st, t) ==
    DecodeWith(token, st, t, DecodeOptionsOff,
               <<"ExpiredSignatureError", "JWTClaimsError">>)

decode_token(token, st, t) ==
    DecodeWith(token, st, t, DecodeOptionsOff, HandledByDecode)

(* ------------------------- requests and responses --------------------- *)

\* exceptions: HTTPException carries a status code and a detail
NoExc == [type |-> "none", status_code |-> 0, detail |-> ""]
HTTPException(status_code, detail) ==
    [type |-> "HTTPException", status_code |-> status_code,
     detail |-> detail]
AttributeError(name) ==
    [type |-> "AttributeError", status_code |-> 0, detail |-> name]

\* a response: its status code, the keys of its JSON body and their
\* values (a plain-text body is the key "text")
Response(status_code, keys, access, refresh, token_type, message) ==
    [status_code |-> status_code, keys |-> keys, access_token |-> access,
     refresh_token |-> refresh, token_type |-> token_type,
     message |-> message]

\* what a handler or a layer of the application hands to the layer around
\* it: a response, or a raised exception
Return(resp) == [exc |-> NoExc, resp |-> Some(resp)]
Raise(exc) == [exc |-> exc, resp |-> None]

StatusDigits(n) ==
    IF n = 400 THEN "400" ELSE IF n = 404 THEN "404" ELSE "500"

\* str(exc) of an HTTPException: "<status_code>: <detail>"
StrOfException(exc) == StatusDigits(exc.status_code) \o ": " \o exc.detail

\* the exception layer FastAPI puts between the router and the
\* middlewares added with add_middleware: an HTTPException raised by a
\* route becomes a response with the exception's own status code and the
\* body {"detail": detail}; anything else is raised again
ExceptionLayer(o) ==
    IF o.exc.type = "HTTPException"
    THEN Return(Response(o.exc.status_code, {"detail"}, None, None, "",
                         o.exc.detail))
    ELSE o

\* dispatch with "except Exception" in place of "except HTTPException"
dispatchCatchAll(o) ==
    IF o.exc.type # "none"
    THEN Return(Response(500, {"error"}, None, None, "", o.exc.detail))
    ELSE o

\* ErrorHandler.dispatch around the outcome of call_next
dispatch(o) ==
    IF o.exc.type = "HTTPException"
    THEN Return(Response(500, {"error"}, None, None, "",
                         StrOfException(o.exc)))
    ELSE o

\* the server-error layer around every middleware: an exception that
\* leaves the application is answered with 500 "Internal Server Error"
ServerErrorLayer(o) ==
    IF o.exc.type # "none"
    THEN Return(Response(500, {"text"}, None, None, "",
                         "Internal Server Error"))
    ELSE o

\* the application of main.py around a route handler's outcome: what
\* call_next hands to dispatch, what dispatch hands on, and the response
\* the client receives
App(o) ==
    LET inner == ExceptionLayer(o)
        outer == dispatch(inner)
    IN  [inner |-> inner, outer |-> outer,
         response |-> ServerErrorLayer(outer).resp]

(* ------------------------------- e-mail ------------------------------- *)

\* the exceptions of smtplib and of the socket below it
SMTPError(type) == [type |-> type, status_code |-> 0, detail |-> ""]

\* issubclass(exc, cls) for these exceptions
IsSubclass(exc, cls) ==
    \/ exc = cls
    \/ /\ cls = "SMTPResponseException"
       /\ exc \in {"SMTPDataError", "SMTPSenderRefused", "SMTPConnectError",
                   "SMTPAuthenticationError"}
    \/ /\ cls = "SMTPException"
       /\ exc \in {"SMTPResponseException", "SMTPDataError",
                   "SMTPSenderRefused", "SMTPConnectError",
                   "SMTPAuthenticationError", "SMTPServerDisconnected",
                   "SMTPRecipientsRefused"}

\* what the SMTP server does with one delivery: how the connection and
\* login end, how sendmail ends, how quit ends
InitOutcomes ==
    {"ok", "SMTPServerDisconnected", "SMTPConnectError",
     "SMTPAuthenticationError"}
SendmailOutcomes ==
    {"ok", "SMTPDataError", "SMTPSenderRefused", "SMTPRecipientsRefused",
     "SMTPServerDisconnected"}
QuitOutcomes == {"ok", "SMTPServerDisconnected"}

\* one delivery, as far as the code gets to see it
SmtpEnvs ==
    {[init |-> i, sendmail |-> "ok", quit |-> "ok"] :
        i \in InitOutcomes \ {"ok"}}
    \cup {[init |-> "ok", sendmail |-> s, quit |-> "ok"] :
             s \in {"SMTPRecipientsRefused", "SMTPServerDisconnected"}}
    \cup {[init |-> "ok", sendmail |-> s, quit |-> q] :
             s \in {"ok", "SMTPDataError", "SMTPSenderRefused"},
             q \in QuitOutcomes}

\* the message has been handed to the SMTP server
Delivered(env) == env.init = "ok" /\ env.sendmail = "ok"

\* smtp_init: the connected server, None after the two exceptions it
\* handles, any other exception raised to the caller
smtp_init(env) ==
    IF env.init = "ok" THEN Return(Some("SMTP"))
    ELSE IF env.init \in {"SMTPServerDisconnected", "SMTPConnectError"}
    THEN Return(None)
    ELSE Raise(SMTPError(env.init))

\* smtp_email: server.sendmail inside try, server.quit after it
smtp_email(server, env) ==
    IF server = None THEN Raise(AttributeError("sendmail"))
    ELSE IF /\ env.sendmail # "ok"
            /\ ~IsSubclass(env.sendmail, "SMTPDataError")
            /\ ~IsSubclass(env.sendmail, "SMTPResponseException")
    THEN Raise(SMTPError(env.sendmail))
    ELSE IF env.quit # "ok" THEN Raise(SMTPError(env.quit))
    ELSE Return(env.sendmail = "ok")

\* the try statement of send_email around the outcome of smtp_email
SendEmailTry(o) ==
    IF o.exc.type = "none" THEN o
    ELSE IF IsSubclass(o.exc.type, "SMTPException") THEN Return(FALSE)
    ELSE o

\* send_email from its call of smtp_init on
send_email(env) ==
    LET server == smtp_init(env)
    IN  IF server.exc.type # "none" THEN server
        ELSE SendEmailTry(smtp_email(server.resp[1], env))

\* send_test_email(email_to, setting)
send_test_email(st, env) ==
    IF ~HasAttr(st, "PROJECT_NAME")
    THEN Raise(AttributeError("PROJECT_NAME"))
    ELSE send_email(env)

(* -------------------------------- state ------------------------------- *)

VARIABLES
    setting,     \* the cached Settings object (get_setting)
    tz,          \* UTC offset of the server's local time zone
    now,         \* the clock
    nextJti,     \* number of uuid4 values drawn so far
    req,         \* the login requests
    decoded,     \* the decode_token call in progress, with its result
    mail,        \* the send_email call in progress
    movies,      \* the rows of table movie
    mreq         \* the requests to the movie routes

vars == <<setting, tz, now, nextJti, req, decoded, mail, movies, mreq>>

\* the state of the login routes and the state of the movie routes
loginVars == <<setting, tz, now, nextJti, req, decoded>>
movieVars == <<movies, mreq>>

IdleRequest ==
    [pc |-> "idle", username |-> "", password |-> "", payload |-> None,
     access_token |-> None, refresh_token |-> None, crossed |-> FALSE,
     sent |-> None, handler |-> Raise(NoExc), inner |-> Raise(NoExc),
     outer |-> Raise(NoExc), response |-> None]

\* the requests to the movie routes
MovieRequests == {1, 2}

IdleMovieRequest ==
    [pc |-> "idle", op |-> "", movie_id |-> 0, body |-> None,
     found |-> None, handler |-> Raise(NoExc), response |-> None]

Init ==
    /\ setting \in {Settings(a, m, s) :
                        a \in {DeclaredAttrs, CallerAttrs},
                        m \in AccessMinutes, s \in RefreshSeconds}
    /\ tz \in TzOffsets
    /\ now = 0
    /\ nextJti = 0
    /\ req = [r \in Requests |-> IdleRequest]
    /\ decoded = None
    /\ mail = None
    /\ movies = {}
    /\ mreq = [r \in MovieRequests |-> IdleMovieRequest]

(* -------------------------------- clock ------------------------------- *)

\* a request between building its payload and the end of token issuance:
\* this part of login has no suspension point and no I/O
InSync(r) == req[r].pc \in {"access", "refresh"}

\* a second boundary may pass while a request is in that part, once
CanCross ==
    /\ now % SecondsPerMinute < MaxFineSeconds
    /\ \A r \in Requests : InSync(r) => ~req[r].crossed

Crossed(rq) ==
    [r \in Requests |->
        IF InSync(r) THEN [rq[r] EXCEPT !.crossed = TRUE] ELSE rq[r]]

\* one second passes
Tick ==
    /\ decoded = None
    /\ CanCross
    /\ now' = now + 1
    /\ req' = Crossed(req)
    /\ UNCHANGED <<setting, tz, nextJti, decoded, mail, movieVars>>

\* a minute passes while no request is issuing tokens
Sleep ==
    /\ decoded = None
    /\ \A r \in Requests : ~InSync(r)
    /\ now + SecondsPerMinute < SecondsPerMinute * MaxMinutes
    /\ now' = now + SecondsPerMinute
    /\ UNCHANGED <<setting, tz, nextJti, req, decoded, mail, movieVars>>

(* -------------------------------- login ------------------------------- *)

\* the dict login builds; its reads of the clock may straddle a second
\* boundary (d1 before the nbf read, d2 before the iat read)
LoginPayload(username, st, t, d1, d2, off, jti) ==
    [iss |-> SERVER_HOST(st),
     sub |-> "username:" \o username,
     aud |-> SERVER_HOST(st) \o "/authentication/login",
     exp |-> TimeTime(t) + ACCESS_TOKEN_EXPIRE_MINUTES(st),
     nbf |-> TimeTime(t + d1) - 1,
     iat |-> TimeTime(t + d1 + d2),
     jti |-> [type |-> "UUID", v |-> jti],
     preferred_username |-> username,
     updated_at |-> DatetimeNow(t + d1 + d2, off)]

\* the request is over: the application answers the handler's outcome
Finish(rq, o) ==
    [rq EXCEPT !.pc = "done", !.handler = o, !.inner = App(o).inner,
               !.outer = App(o).outer, !.response = App(o).response]

\* POST /authentication/login arrives and login builds its payload
LoginBuildPayload(r) ==
    /\ decoded = None
    /\ req[r].pc = "idle"
    /\ \E u \in Usernames, p \in Passwords, d1 \in {0, 1}, d2 \in {0, 1} :
        /\ d1 + d2 <= 1
        /\ d1 + d2 = 1 => CanCross
        /\ LET rq == [req[r] EXCEPT !.username = u, !.password = p]
           IN  IF ~HasAttr(setting, "SERVER_HOST")
               THEN /\ req' = [req EXCEPT
                                 ![r] = Finish(rq,
                                          Raise(AttributeError("SERVER_HOST")))]
                    /\ UNCHANGED <<now, nextJti>>
               ELSE /\ req' = [Crossed(req) EXCEPT
                                 ![r] = [rq EXCEPT
                                    !.pc = "access",
                                    !.crossed = (d1 + d2 = 1),
                                    !.payload = Some(LoginPayload(
                                        u, setting, now, d1, d2, tz,
                                        nextJti))]]
                    /\ now' = now + d1 + d2
                    /\ nextJti' = nextJti + 1
    /\ UNCHANGED <<setting, tz, decoded, mail, movieVars>>

\* login if it sent the mail right after the access token, before the
\* refresh token exists
LoginAccessTokenThenSend(r) ==
    /\ decoded = None
    /\ req[r].pc = "access"
    /\ req' = [req EXCEPT ![r] = [@ EXCEPT
                 !.pc = "email",
                 !.access_token = Some(create_access_token(
                     req[r].payload[1], None, setting, now, tz)),
                 !.payload = Some(PayloadAfterCreate(
                     req[r].payload[1], None, setting, now, tz))]]
    /\ UNCHANGED <<setting, tz, now, nextJti, decoded, mail, movieVars>>

\* login if payload were one dict shared by all requests: the token is
\* made from the payload built last
LoginAccessTokenShared(r) ==
    /\ decoded = None
    /\ req[r].pc = "access"
    /\ LET q == CHOOSE q \in Requests :
                   /\ req[q].payload # None
                   /\ \A o \in Requests :
                         req[o].payload # None =>
                             req[o].payload[1].jti.v <= req[q].payload[1].jti.v
       IN  req' = [req EXCEPT ![r] = [@ EXCEPT
                     !.pc = "refresh",
                     !.access_token = Some(create_access_token(
                         req[q].payload[1], None, setting, now, tz)),
                     !.payload = Some(PayloadAfterCreate(
                         req[r].payload[1], None, setting, now, tz))]]
    /\ UNCHANGED <<setting, tz, now, nextJti, decoded, mail, movieVars>>

\* access_token = await create_access_token(payload=payload, ...)
LoginAccessToken(r) ==
    /\ decoded = None
    /\ req[r].pc = "access"
    /\ req' = [req EXCEPT ![r] = [@ EXCEPT
                 !.pc = "refresh",
                 !.access_token = Some(create_access_token(
                     req[r].payload[1], None, setting, now, tz)),
                 !.payload = Some(PayloadAfterCreate(
                     req[r].payload[1], None, setting, now, tz))]]
    /\ UNCHANGED <<setting, tz, now, nextJti, decoded, mail, movieVars>>

\* the refresh step if the access token were the payload dict itself and
\* not its encoding: the update of exp would show in it
LoginRefreshTokenAliased(r) ==
    /\ decoded = None
    /\ req[r].pc = "refresh"
    /\ LET p == PayloadAfterCreate(req[r].payload[1], RefreshDelta(setting),
                                   setting, now, tz)
       IN  req' = [req EXCEPT ![r] = [@ EXCEPT
                     !.pc = "email",
                     !.refresh_token = Some(create_refresh_token(
                         req[r].payload[1], setting, now, tz)),
                     !.access_token = Some(jwt_encode(
                         jsonable_encoder(p), setting.secret_key,
                         setting.ALGORITHM)),
                     !.payload = Some(p)]]
    /\ UNCHANGED <<setting, tz, now, nextJti, decoded, mail, movieVars>>

\* refresh_token = await create_refresh_token(payload=payload, ...)
LoginRefreshToken(r) ==
    /\ decoded = None
    /\ req[r].pc = "refresh"
    /\ req' = [req EXCEPT ![r] = [@ EXCEPT
                 !.pc = "email",
                 !.refresh_token = Some(create_refresh_token(
                     req[r].payload[1], setting, now, tz)),
                 !.payload = Some(PayloadAfterCreate(
                     req[r].payload[1], RefreshDelta(setting), setting,
                     now, tz))]]
    /\ UNCHANGED <<setting, tz, now, nextJti, decoded, mail, movieVars>>

\* login without its check of sent_email
LoginResultUnchecked(rq, sent_email) ==
    Return(Response(200, {"access_token", "token_type", "refresh_token"},
                    rq.access_token, rq.refresh_token, "bearer", ""))

\* login if it verified the password before answering
LoginResultVerified(rq, sent_email) ==
    IF rq.password # "pw1"
    THEN Raise(HTTPException(400, "Incorrect username or password"))
    ELSE IF ~sent_email
    THEN Raise(HTTPException(400, "Mail could not be delivered."))
    ELSE Return(Response(200,
                         {"access_token", "token_type", "refresh_token"},
                         rq.access_token, rq.refresh_token, "bearer", ""))

\* what login does with the result of send_test_email
LoginResult(rq, sent_email) ==
    IF ~sent_email
    THEN Raise(HTTPException(400, "Mail could not be delivered."))
    ELSE Return(Response(200,
                         {"access_token", "token_type", "refresh_token"},
                         rq.access_token, rq.refresh_token, "bearer", ""))

\* sent_email = await send_test_email(...), then the end of login
LoginSendEmail(r) ==
    /\ decoded = None
    /\ req[r].pc = "email"
    /\ \E env \in SmtpEnvs :
        LET o == send_test_email(setting, env)
        IN  req' = [req EXCEPT ![r] =
                      IF o.exc.type # "none" THEN Finish(req[r], o)
                      ELSE Finish([req[r] EXCEPT !.sent = Some(o.resp[1])],
                                  LoginResult(req[r], o.resp[1]))]
    /\ UNCHANGED <<setting, tz, now, nextJti, decoded, mail, movieVars>>

(* ------------------------ direct calls of the codec ------------------- *)

\* the tokens this server has produced
IssuedTokens ==
    {tk \in UNION {{req[r].access_token, req[r].refresh_token} :
                       r \in Requests} : tk # None}

\* claims as another caller of create_access_token could have put them
\* into its payload: another issuer, another audience
OtherClaims(c) ==
    {[c EXCEPT !.iss = h] : h \in Hosts}
    \cup {[c EXCEPT !.aud = h \o "/authentication/login"] : h \in Hosts}

\* the strings a caller can pass to decode_token: a token of this server,
\* a token with other claims signed with the server's key, the same claims
\* signed with another key, a token cut short, a token whose header names
\* another algorithm
TokenStrings ==
    UNION {{tk[1],
            [tk[1] EXCEPT !.sig = Sign("K2", tk[1].alg, tk[1].claims)],
            [tk[1] EXCEPT !.parts = 2],
            [tk[1] EXCEPT !.alg = "none"]}
           \cup {jwt_encode(c, tk[1].sig.key, tk[1].alg) :
                     c \in OtherClaims(tk[1].claims)} : tk \in IssuedTokens}

\* the settings decode_token may be handed
DecodeSettings ==
    {setting} \cup {[setting EXCEPT !.secret_key = k] : k \in SecretKeys}
              \cup {[setting EXCEPT !.base_url = h] : h \in Hosts}

\* decode_token(token, setting) is called; it runs without suspension
DecodeToken ==
    /\ decoded = None
    /\ \E tk \in TokenStrings, st \in DecodeSettings :
        decoded' = Some([token |-> tk, secret_key |-> st.secret_key,
                         base_url |-> st.base_url, at |-> now,
                         result |-> decode_token(tk, st, now)])
    /\ UNCHANGED <<setting, tz, now, nextJti, req, mail, movieVars>>

\* the call returns to its caller
DecodeReturn ==
    /\ decoded # None
    /\ decoded' = None
    /\ UNCHANGED <<setting, tz, now, nextJti, req, mail, movieVars>>

Next ==
    \/ Tick
    \/ Sleep
    \/ \E r \in Sequential : LoginBuildPayload(r)
    \/ \E r \in Sequential : LoginAccessToken(r)
    \/ \E r \in Sequential : LoginRefreshToken(r)
    \/ \E r \in Sequential : LoginSendEmail(r)
    \/ DecodeToken
    \/ DecodeReturn

Spec == Init /\ [][Next]_vars

\* login requests running concurrently
ConcurrentNext ==
    \/ Tick
    \/ \E r \in Requests : LoginBuildPayload(r)
    \/ \E r \in Requests : LoginAccessToken(r)
    \/ \E r \in Requests : LoginRefreshToken(r)
    \/ \E r \in Requests : LoginSendEmail(r)

\* one time zone and one pair of durations are enough for them
ConcurrentInit ==
    /\ Init
    /\ tz = 0
    /\ setting.access_token_expire_minutes = 1
    /\ setting.refresh_token_expire_seconds = 120

SpecConcurrent == ConcurrentInit /\ [][ConcurrentNext]_vars

(* ----------------------- direct calls of send_email ------------------- *)

CarbonCopies == {None, <<"carol">>}

\* to_list of send_email
ToList(recipients, carbon_copy, blind_carbon_copy) ==
    LET with_cc == IF carbon_copy # <<>> THEN recipients \o carbon_copy
                   ELSE recipients
    IN  IF blind_carbon_copy # <<>> THEN with_cc \o blind_carbon_copy
        ELSE with_cc

\* send_email(recipients, ...) is called; the message is rendered
SendEmailCall ==
    /\ mail = None
    /\ \E u \in Usernames, cc \in CarbonCopies, bcc \in CarbonCopies :
        mail' = Some([pc |-> "smtp_init", to_list |-> ToList(<<u>>, cc, bcc),
                      env |-> None, server |-> None,
                      result |-> Raise(NoExc)])
    /\ UNCHANGED <<loginVars, movieVars>>

\* server = await smtp_init(user_email, user_password, host, port)
SendEmailInit ==
    /\ mail # None
    /\ mail[1].pc = "smtp_init"
    /\ \E env \in SmtpEnvs :
        LET o == smtp_init(env)
        IN  mail' = IF o.exc.type # "none"
                    THEN Some([mail[1] EXCEPT !.pc = "return",
                                              !.env = Some(env),
                                              !.result = o])
                    ELSE Some([mail[1] EXCEPT !.pc = "smtp_email",
                                              !.env = Some(env),
                                              !.server = o.resp[1]])
    /\ UNCHANGED <<loginVars, movieVars>>

\* the try statement: sent_email = await smtp_email(server, ...)
SendEmailSmtp ==
    /\ mail # None
    /\ mail[1].pc = "smtp_email"
    /\ mail' = Some([mail[1] EXCEPT
                       !.pc = "return",
                       !.result = SendEmailTry(
                                      smtp_email(mail[1].server,
                                                 mail[1].env[1]))])
    /\ UNCHANGED <<loginVars, movieVars>>

\* send_email returns to its caller, or raises
SendEmailReturn ==
    /\ mail # None
    /\ mail[1].pc = "return"
    /\ mail' = None
    /\ UNCHANGED <<loginVars, movieVars>>

MailNext ==
    \/ SendEmailCall
    \/ SendEmailInit
    \/ SendEmailSmtp
    \/ SendEmailReturn

SpecMail == Init /\ [][MailNext]_vars

(* ------------------------------- movies ------------------------------- *)

\* the ids of path parameters and request bodies
MovieIds == {1, 2}

Fields == {"id", "title", "overview", "year", "rating", "category"}

\* what a request body says about a movie, besides its id
Contents ==
    {[title |-> "Alien", overview |-> "In space no one can hear you.",
      year |-> 1979, rating |-> 8, category |-> "horror"],
     [title |-> "Shane", overview |-> "A gunfighter settles down.",
      year |-> 1953, rating |-> 7, category |-> "western"]}

\* class Movie: a valid request body, and a row of table movie
Movie(id, c) ==
    [id |-> id, title |-> c.title, overview |-> c.overview,
     year |-> c.year, rating |-> c.rating, category |-> c.category]

Bodies == {Movie(i, c) : i \in MovieIds, c \in Contents}

\* select(MovieDB).where(MovieDB.id == movie_id)
SelectById(rows, movie_id) == {m \in rows : m.id = movie_id}

\* read_movie_by_id if its statement had no where clause and took the
\* first row
read_movie_by_idAny(rows, movie_id) ==
    IF rows = {} THEN None
    ELSE Some(CHOOSE m \in rows : \A o \in rows : m.id <= o.id)

\* read_movie_by_id: result.one(), None after NoResultFound
read_movie_by_id(rows, movie_id) ==
    IF SelectById(rows, movie_id) = {} THEN None
    ELSE Some(CHOOSE m \in SelectById(rows, movie_id) : TRUE)

\* exceptions of the ORM and of the interpreter
TypeError == [type |-> "TypeError", status_code |-> 0,
              detail |-> "'NoneType' object is not iterable"]
IntegrityError == [type |-> "IntegrityError", status_code |-> 0,
                   detail |-> "UNIQUE constraint failed: movie.id"]
StaleDataError == [type |-> "StaleDataError", status_code |-> 0,
                   detail |-> "UPDATE statement expected to update 1 row"]
InvalidRequestError == [type |-> "InvalidRequestError", status_code |-> 0,
                        detail |-> "Could not refresh instance"]

\* str(movie_id)
StrOfId(n) == <<"1", "2", "3">>[n]

\* the exception of the three routes that look the movie up first
NotFound(movie_id) ==
    HTTPException(404, "Movie with ID " \o StrOfId(movie_id)
                           \o " not found in the system.")

\* responses of the movie routes: the status code, the movie in the body,
\* the header deleted
MovieResponse(status_code, movie, deleted) ==
    [status_code |-> status_code, movie |-> movie, deleted |-> deleted]

\* the request is over: the application answers the handler's outcome
FinishMovie(rq, o) ==
    [rq EXCEPT !.pc = "done", !.handler = o, !.response = App(o).response]

\* POST /movies: create_movie adds the row and commits
CreateMovie(r) ==
    /\ mreq[r].pc = "idle"
    /\ \E body \in Bodies :
        LET rq == [mreq[r] EXCEPT !.op = "create", !.body = Some(body)]
        IN  IF SelectById(movies, body.id) # {}
            THEN /\ movies' = movies
                 /\ mreq' = [mreq EXCEPT
                               ![r] = FinishMovie(rq, Raise(IntegrityError))]
            ELSE /\ movies' = movies \cup {body}
                 /\ mreq' = [mreq EXCEPT
                               ![r] = FinishMovie(rq, Return(
                                   MovieResponse(201, Some(body), "")))]
    /\ UNCHANGED <<loginVars, mail>>

\* GET /movies/{movie_id}
GetMovie(r) ==
    /\ mreq[r].pc = "idle"
    /\ \E id \in MovieIds :
        LET rq == [mreq[r] EXCEPT !.op = "get", !.movie_id = id]
            movie == read_movie_by_id(movies, id)
        IN  mreq' = [mreq EXCEPT
                       ![r] = IF movie = None
                              THEN FinishMovie(rq, Raise(NotFound(id)))
                              ELSE FinishMovie(rq, Return(
                                       MovieResponse(200, movie, "")))]
    /\ UNCHANGED <<loginVars, mail, movies>>

\* the lookup that opens update_movie and delete_movie: the row stays
\* loaded in the request's session
CheckFound(r, op, id, body) ==
    LET rq == [mreq[r] EXCEPT !.op = op, !.movie_id = id, !.body = body]
        found_movie == read_movie_by_id(movies, id)
    IN  mreq' = [mreq EXCEPT
                   ![r] = IF found_movie = None
                          THEN FinishMovie(rq, Raise(NotFound(id)))
                          ELSE [rq EXCEPT !.pc = "select",
                                          !.found = found_movie]]

\* PUT /update-movie/{movie_id} up to its check that the movie exists
UpdateMovieCheck(r) ==
    /\ mreq[r].pc = "idle"
    /\ \E id \in MovieIds, body \in Bodies :
        CheckFound(r, "update", id, Some(body))
    /\ UNCHANGED <<loginVars, mail, movies>>

\* update_movie_by_id up to its loop over obj_data: the select finds the
\* row, or obj_data is None and the loop raises
UpdateMovieSelect(r) ==
    /\ mreq[r].pc = "select"
    /\ mreq[r].op = "update"
    /\ mreq' = [mreq EXCEPT
                  ![r] = IF SelectById(movies, mreq[r].movie_id) = {}
                         THEN FinishMovie(mreq[r], Raise(TypeError))
                         ELSE [mreq[r] EXCEPT !.pc = "commit"]]
    /\ UNCHANGED <<loginVars, mail, movies>>

\* the fields the loop of update_movie_by_id has given a new value
Changed(loaded, body) == {f \in Fields : body[f] # loaded[f]}

\* session.commit() and session.refresh() of update_movie_by_id: the
\* UPDATE sets the changed columns of the row that has the loaded id
UpdateCommit(rows, loaded, body) ==
    LET changed == Changed(loaded, body)
        target == SelectById(rows, loaded.id)
        cur == CHOOSE m \in target : TRUE
        Pick(f) == IF f \in changed THEN body[f] ELSE cur[f]
        new == [id |-> Pick("id"), title |-> Pick("title"),
                overview |-> Pick("overview"), year |-> Pick("year"),
                rating |-> Pick("rating"), category |-> Pick("category")]
    IN  IF changed = {}
        THEN IF target = {}
             THEN [rows |-> rows, out |-> Raise(InvalidRequestError)]
             ELSE [rows |-> rows, out |-> Return(cur)]
        ELSE IF target = {}
        THEN [rows |-> rows, out |-> Raise(StaleDataError)]
        ELSE IF "id" \in changed /\ SelectById(rows, body.id) # {}
        THEN [rows |-> rows, out |-> Raise(IntegrityError)]
        ELSE [rows |-> (rows \ {cur}) \cup {new}, out |-> Return(new)]

\* what update_movie does with the result of update_movie_by_id
UpdateResult(updated_movie) ==
    IF updated_movie = None
    THEN Raise(HTTPException(404, "Movie not found in the system."))
    ELSE Return(MovieResponse(200, updated_movie, ""))

\* the rest of update_movie_by_id, then the end of update_movie
UpdateMovieCommit(r) ==
    /\ mreq[r].pc = "commit"
    /\ mreq[r].op = "update"
    /\ LET c == UpdateCommit(movies, mreq[r].found[1], mreq[r].body[1])
       IN  /\ movies' = c.rows
           /\ mreq' = [mreq EXCEPT
                         ![r] = FinishMovie(mreq[r],
                                    IF c.out.exc.type # "none" THEN c.out
                                    ELSE UpdateResult(c.out.resp))]
    /\ UNCHANGED <<loginVars, mail>>

\* DELETE /delete-movie/{movie_id} up to its check that the movie exists
DeleteMovieCheck(r) ==
    /\ mreq[r].pc = "idle"
    /\ \E id \in MovieIds : CheckFound(r, "delete", id, None)
    /\ UNCHANGED <<loginVars, mail, movies>>

\* delete_movie_by_id up to its test of movie_to_delete
DeleteMovieSelect(r) ==
    /\ mreq[r].pc = "select"
    /\ mreq[r].op = "delete"
    /\ mreq' = [mreq EXCEPT
                  ![r] = IF SelectById(movies, mreq[r].movie_id) = {}
                         THEN FinishMovie(mreq[r], Return(
                                  MovieResponse(204, None, "false")))
                         ELSE [mreq[r] EXCEPT !.pc = "commit"]]
    /\ UNCHANGED <<loginVars, mail, movies>>

\* DELETE FROM movie WHERE id = movie_id
DeleteRows(rows, movie_id) == {m \in rows : m.id # movie_id}

\* session.delete and session.commit, then the end of delete_movie
DeleteMovieCommit(r) ==
    /\ mreq[r].pc = "commit"
    /\ mreq[r].op = "delete"
    /\ movies' = DeleteRows(movies, mreq[r].movie_id)
    /\ mreq' = [mreq EXCEPT
                  ![r] = FinishMovie(mreq[r], Return(
                             MovieResponse(204, None, "true")))]
    /\ UNCHANGED <<loginVars, mail>>

\* the response has been sent
MovieReturn(r) ==
    /\ mreq[r].pc = "done"
    /\ mreq' = [mreq EXCEPT ![r] = IdleMovieRequest]
    /\ UNCHANGED <<loginVars, mail, movies>>

MoviesNext ==
    \/ \E r \in MovieRequests : CreateMovie(r)
    \/ \E r \in MovieRequests : GetMovie(r)
    \/ \E r \in MovieRequests : UpdateMovieCheck(r)
    \/ \E r \in MovieRequests : UpdateMovieSelect(r)
    \/ \E r \in MovieRequests : UpdateMovieCommit(r)
    \/ \E r \in MovieRequests : DeleteMovieCheck(r)
    \/ \E r \in MovieRequests : DeleteMovieSelect(r)
    \/ \E r \in MovieRequests : DeleteMovieCommit(r)
    \/ \E r \in MovieRequests : MovieReturn(r)

\* the movie routes read no setting and no clock
MoviesInit ==
    /\ Init
    /\ tz = 0
    /\ setting = Settings(DeclaredAttrs, 1, 120)

SpecMovies == MoviesInit /\ [][MoviesNext]_vars

(* -------------------------------- claims ------------------------------ *)

\* the response the client of request r received
ResponseOf(r) == req[r].response[1]

\* C1: whenever send_test_email has reported its result to login, the
\* response is decided by it: success gives 200 with access_token,
\* refresh_token and token_type = "bearer", failure gives the client 400
\* with the message "Mail could not be delivered."
C1_ResponseDecidedBySend ==
    \A r \in Requests :
        req[r].sent # None =>
            /\ req[r].response # None
            /\ IF req[r].sent[1]
               THEN /\ ResponseOf(r).status_code = 200
                    /\ ResponseOf(r).keys
                         = {"access_token", "token_type", "refresh_token"}
                    /\ ResponseOf(r).access_token # None
                    /\ ResponseOf(r).refresh_token # None
                    /\ ResponseOf(r).token_type = "bearer"
               ELSE /\ ResponseOf(r).status_code = 400
                    /\ ResponseOf(r).message = "Mail could not be delivered."
                    /\ ResponseOf(r).access_token = None
                    /\ ResponseOf(r).refresh_token = None

\* a login whose email could not be sent has been answered
C1_Witness ==
    \E r \in Requests :
        /\ req[r].pc = "done"
        /\ req[r].sent = Some(FALSE)
        /\ req[r].handler.exc.type = "HTTPException"
        /\ ResponseOf(r).status_code = 400

\* the decode_token call in progress
Call == decoded[1]

\* the call decodes a token of this server with the server's settings
DecodesIssuedToken ==
    /\ decoded # None
    /\ Some(Call.token) \in IssuedTokens
    /\ Call.secret_key = setting.secret_key
    /\ Call.base_url = setting.base_url

\* C3: decode_token called strictly after the token's exp returns None
C3_ExpiredYieldsNone ==
    decoded # None =>
        (Call.at > Call.token.claims.exp =>
            Call.result = [raised |-> "none", value |-> None])

\* a token of this server was decoded one second after its exp
C3_Witness ==
    /\ DecodesIssuedToken
    /\ Call.at = Call.token.claims.exp + 1
    /\ Call.result.value = None

\* C4: a token signed with one secret key, decoded with settings that hold
\* another secret key, yields None
C4_OtherSecretYieldsNone ==
    decoded # None =>
        (Call.token.sig.key # Call.secret_key =>
            Call.result = [raised |-> "none", value |-> None])

\* an unexpired token of this server was decoded with settings that differ
\* in the secret key only
C4_Witness ==
    /\ decoded # None
    /\ Some(Call.token) \in IssuedTokens
    /\ Call.token.sig.key = "K1"
    /\ Call.secret_key = "K2"
    /\ Call.base_url = setting.base_url
    /\ Call.at <= Call.token.claims.exp
    /\ Call.result.value = None

\* the token of the call is correctly signed for the settings of the call
\* and has not expired
SignedAndUnexpired ==
    /\ decoded # None
    /\ Call.token.parts = 3
    /\ Call.token.alg = setting.ALGORITHM
    /\ Call.token.sig
         = Sign(Call.secret_key, Call.token.alg, Call.token.claims)
    /\ Call.at <= Call.token.claims.exp

AudMatches ==
    Call.token.claims.aud = Call.base_url \o "/authentication/login"
IssMatches == Call.token.claims.iss = Call.base_url

\* C5: for a correctly signed, unexpired token decode_token returns None
\* when aud differs from base_url + '/authentication/login' or iss differs
\* from base_url, and returns the claim set only when both match
C5_AudIssChecked ==
    SignedAndUnexpired =>
        /\ (~AudMatches \/ ~IssMatches) =>
               Call.result = [raised |-> "none", value |-> None]
        /\ Call.result.value # None => AudMatches /\ IssMatches

\* a correctly signed, unexpired token whose aud alone is wrong was decoded
C5_Witness ==
    /\ SignedAndUnexpired
    /\ Call.token.claims.nbf <= Call.at
    /\ ~AudMatches
    /\ IssMatches
    /\ Call.result.value = None

\* C6: decode_token returns the claim set of the token or None for every
\* token string and raises nothing
C6_DecodeIsTotal ==
    decoded # None =>
        /\ Call.result.raised = "none"
        /\ Call.result.value \in {None, Some(Call.token.claims)}

\* a malformed token string was decoded
C6_Witness ==
    /\ decoded # None
    /\ Call.token.parts # 3
    /\ Call.result = [raised |-> "none", value |-> None]

\* the claims of the tokens login has issued for request r, each with
\* the duration requested for it, in seconds
TokensOf(r) ==
    (IF req[r].access_token = None THEN {}
     ELSE {[token |-> req[r].access_token[1],
            duration |-> SecondsPerMinute
                           * setting.access_token_expire_minutes]})
    \cup
    (IF req[r].refresh_token = None THEN {}
     ELSE {[token |-> req[r].refresh_token[1],
            duration |-> setting.refresh_token_expire_seconds]})

\* C2 as claimed: a token of login decoded with the same settings before
\* its expiry yields a claim set whose iss, sub, aud and preferred_username
\* are those of the payload, and its exp is the issue time plus the
\* requested duration within one second
C2_RoundTrip ==
    \A r \in Requests : \A x \in TokensOf(r) :
        LET c == x.token.claims
            p == req[r].payload[1]
            d == decode_token(x.token, setting, now)
        IN  /\ now <= c.exp =>
                /\ d.value = Some(c)
                /\ c.iss = p.iss /\ c.sub = p.sub /\ c.aud = p.aud
                /\ c.preferred_username = p.preferred_username
            /\ c.exp - (c.iat + x.duration) \in {0 - 1, 0, 1}

\* C7 as claimed: the two tokens of a login carry the same sub, iss, aud,
\* preferred_username, nbf, iat and jti, and differ in exp
SameIdentity(a, f) ==
    /\ a.sub = f.sub /\ a.iss = f.iss /\ a.aud = f.aud
    /\ a.preferred_username = f.preferred_username
    /\ a.nbf = f.nbf /\ a.iat = f.iat /\ a.jti = f.jti

C7_DifferInExp ==
    \A r \in Requests :
        req[r].access_token # None /\ req[r].refresh_token # None =>
            /\ SameIdentity(req[r].access_token[1].claims,
                            req[r].refresh_token[1].claims)
            /\ req[r].access_token[1].claims.exp
                 # req[r].refresh_token[1].claims.exp

\* the refresh duration is configured longer than the access duration
RefreshOutlivesAccess ==
    setting.refresh_token_expire_seconds
        > SecondsPerMinute * setting.access_token_expire_minutes

\* C7 as amended: an access token never changes once issued, in particular
\* not when the refresh token is issued; the two tokens carry the same sub,
\* iss, aud, preferred_username, nbf, iat and jti; the refresh token's exp
\* is the later one whenever refresh_token_expire_seconds exceeds
\* 60 * access_token_expire_minutes
C7_SharedClaims ==
    [][\A r \in Requests :
          /\ req[r].access_token # None =>
                req'[r].access_token = req[r].access_token
          /\ req'[r].access_token # None /\ req'[r].refresh_token # None =>
                /\ SameIdentity(req'[r].access_token[1].claims,
                                req'[r].refresh_token[1].claims)
                /\ RefreshOutlivesAccess =>
                      req'[r].refresh_token[1].claims.exp
                          > req'[r].access_token[1].claims.exp]_vars

\* both tokens of a login are issued and the refresh token's exp is later
C7_Witness ==
    \E r \in Requests :
        /\ req[r].pc = "email"
        /\ req[r].access_token # None /\ req[r].refresh_token # None
        /\ RefreshOutlivesAccess
        /\ req[r].refresh_token[1].claims.exp
             > req[r].access_token[1].claims.exp
        /\ req[r].payload[1].exp = req[r].refresh_token[1].claims.exp

\* C8 as claimed: every HTTPException a handler raises reaches the client
\* as status 500 with the body {"error": message}
C8_HTTPExceptionBecomes500 ==
    \A r \in Requests :
        req[r].pc = "done" /\ req[r].handler.exc.type = "HTTPException" =>
            /\ ResponseOf(r).status_code = 500
            /\ ResponseOf(r).keys = {"error"}
            /\ ResponseOf(r).message = req[r].handler.exc.detail

\* C9: what call_next hands to dispatch passes through unchanged unless it
\* is a raised HTTPException: other exceptions are raised on, responses
\* are returned as they are
C9_DispatchPassesThrough ==
    \A r \in Requests :
        req[r].pc = "done" =>
            (req[r].inner.exc.type # "HTTPException" =>
                req[r].outer = req[r].inner)

\* an exception that is not an HTTPException went through dispatch
C9_Witness ==
    \E r \in Requests :
        /\ req[r].pc = "done"
        /\ req[r].inner.exc.type = "AttributeError"
        /\ req[r].outer = req[r].inner
        /\ ResponseOf(r).status_code = 500

\* C10 as claimed: every claim set login has signed satisfies
\* nbf < iat <= exp
C10_NbfIatExp ==
    \A r \in Requests : \A x \in TokensOf(r) :
        /\ x.token.claims.nbf < x.token.claims.iat
        /\ x.token.claims.iat <= x.token.claims.exp

\* the bearer-token response of login
IsBearerResponse(resp) ==
    /\ resp.status_code = 200
    /\ resp.keys = {"access_token", "token_type", "refresh_token"}
    /\ resp.access_token # None
    /\ resp.refresh_token # None
    /\ resp.token_type = "bearer"

\* the response to a login whose mail could not be delivered
IsDeliveryFailed(resp) ==
    /\ resp.status_code = 400
    /\ resp.message = "Mail could not be delivered."

\* C11 as claimed: every login request that has ended has ended in the
\* bearer-token response or in the delivery-failed client error, and in no
\* other failure
C11_TwoOutcomes ==
    \A r \in Requests :
        req[r].pc = "done" =>
            /\ req[r].handler.exc.type \in {"none", "HTTPException"}
            /\ IsBearerResponse(ResponseOf(r)) \/ IsDeliveryFailed(ResponseOf(r))

\* request r takes the step in which login calls send_test_email and ends
SendStep(r) ==
    /\ req[r].pc # "done"
    /\ req'[r].pc = "done"
    /\ req[r].payload # None

\* C13: when login calls send_test_email both tokens have been created,
\* and when the send reports failure the request is rejected with none of
\* the two tokens in the response
C13_TokensBeforeSend ==
    [][\A r \in Requests :
          SendStep(r) =>
              /\ req[r].access_token # None
              /\ req[r].refresh_token # None
              /\ req'[r].access_token = req[r].access_token
              /\ req'[r].refresh_token = req[r].refresh_token
              /\ req'[r].sent = Some(FALSE) =>
                    /\ req'[r].handler.exc.type = "HTTPException"
                    /\ req'[r].response[1].status_code = 400
                    /\ req'[r].response[1].access_token = None
                    /\ req'[r].response[1].refresh_token = None
                    /\ req'[r].response[1].keys = {"detail"}]_vars

\* a login was rejected after its send failed, with both tokens computed
\* and neither of them in the response
C13_Witness ==
    \E r \in Requests :
        /\ req[r].pc = "done"
        /\ req[r].sent = Some(FALSE)
        /\ req[r].access_token # None
        /\ req[r].refresh_token # None
        /\ ResponseOf(r).status_code = 400
        /\ ResponseOf(r).access_token = None
        /\ ResponseOf(r).refresh_token = None

\* C15 as claimed: for every SMTP outcome send_email returns, and it
\* returns True exactly if the message was sent: False, and no exception,
\* when smtp_init could not reach the server or when sendmail failed
C15_SendEmailReturnsBool ==
    mail # None /\ mail[1].pc = "return" =>
        mail[1].result = Return(Delivered(mail[1].env[1]))

\* the claims of a token that say who it was issued to and by whom
Identity(c) ==
    [sub |-> c.sub, iss |-> c.iss, aud |-> c.aud,
     preferred_username |-> c.preferred_username]

\* C12: two logins with the same username and the same result of the send
\* end alike whatever their passwords: the same status, and tokens with the
\* same sub, iss, aud and preferred_username
C12_PasswordIgnored ==
    \A r1, r2 \in Requests :
        /\ req[r1].pc = "done" /\ req[r2].pc = "done"
        /\ req[r1].username = req[r2].username
        /\ req[r1].sent = req[r2].sent
        => /\ ResponseOf(r1).status_code = ResponseOf(r2).status_code
           /\ ResponseOf(r1).keys = ResponseOf(r2).keys
           /\ ResponseOf(r1).message = ResponseOf(r2).message
           /\ {Identity(x.token.claims) : x \in TokensOf(r1)}
                = {Identity(x.token.claims) : x \in TokensOf(r2)}
           /\ (ResponseOf(r1).access_token = None)
                = (ResponseOf(r2).access_token = None)

\* two logins of the same user at the same second with different passwords
\* have both been answered with tokens
C12_Witness ==
    \E r1, r2 \in Requests :
        /\ req[r1].pc = "done" /\ req[r2].pc = "done"
        /\ req[r1].username = req[r2].username
        /\ req[r1].password # req[r2].password
        /\ req[r1].sent = Some(TRUE) /\ req[r2].sent = Some(TRUE)
        /\ req[r1].payload[1].iat = req[r2].payload[1].iat
        /\ ResponseOf(r1).status_code = 200
        /\ ResponseOf(r2).status_code = 200

\* the tokens of request r name the user of r and carry the jti drawn for
\* r, which no other request has
OwnClaims(r) ==
    \A x \in TokensOf(r) :
        /\ x.token.claims.sub = "username:" \o req[r].username
        /\ x.token.claims.preferred_username = req[r].username
        /\ x.token.claims.jti = EncodeValue(req[r].payload[1].jti)
        /\ \A q \in Requests \ {r} : \A y \in TokensOf(q) :
              y.token.claims.jti # x.token.claims.jti

\* C14: in every interleaving of concurrent logins a request's tokens
\* carry that request's username and its own jti, a step of one request
\* leaves the payload and the tokens of the others alone, and the Settings
\* object is never written
C14_OwnClaims ==
    [][/\ setting' = setting
       /\ \A r \in Requests : OwnClaims(r)'
       /\ \A r \in Requests :
             req'[r].pc = req[r].pc =>
                 /\ req'[r].payload = req[r].payload
                 /\ req'[r].access_token = req[r].access_token
                 /\ req'[r].refresh_token = req[r].refresh_token]_vars

\* two logins of different users are issuing tokens at the same time
C14_Witness ==
    /\ req[1].pc = "refresh" /\ req[2].pc = "refresh"
    /\ req[1].username # req[2].username
    /\ req[1].access_token # None /\ req[2].access_token # None
    /\ req[2].payload[1].jti.v < req[1].payload[1].jti.v

\* request r arrives at one of the routes that look the movie up first
LookupStep(r) ==
    /\ mreq[r].pc = "idle"
    /\ mreq'[r].pc # "idle"
    /\ mreq'[r].op \in {"get", "update", "delete"}

Ids(rows) == {m.id : m \in rows}

\* C16: get_movie, update_movie and delete_movie called with a movie_id
\* that is not in the store raise HTTPException 404 "Movie with ID
\* {movie_id} not found in the system.", which the client receives, and
\* leave the store as it is
C16_MissingIdIs404 ==
    [][\A r \in MovieRequests :
          LookupStep(r) /\ mreq'[r].movie_id \notin Ids(movies) =>
              /\ mreq'[r].pc = "done"
              /\ mreq'[r].handler.exc.type = "HTTPException"
              /\ mreq'[r].handler.exc.status_code = 404
              /\ mreq'[r].handler.exc.detail
                   = "Movie with ID " \o StrOfId(mreq'[r].movie_id)
                       \o " not found in the system."
              /\ mreq'[r].response[1].status_code = 404
              /\ movies' = movies]_vars

\* update_movie has answered 404 for an id that is not in a store that
\* holds another movie
C16_Witness ==
    \E r \in MovieRequests :
        /\ mreq[r].pc = "done"
        /\ mreq[r].op = "update"
        /\ mreq[r].movie_id \notin Ids(movies)
        /\ movies # {}
        /\ mreq[r].handler = Raise(NotFound(mreq[r].movie_id))
        /\ mreq[r].response[1].status_code = 404

\* request r ends a delete_movie that found its movie
DeleteStep(r) ==
    /\ mreq[r].op = "delete"
    /\ mreq[r].pc = "commit"
    /\ mreq'[r].pc = "done"

\* request r is a create_movie for id that succeeds
CreateStep(r, id) ==
    /\ mreq[r].pc = "idle"
    /\ mreq'[r].op = "create"
    /\ mreq'[r].body[1].id = id
    /\ mreq'[r].response[1].status_code = 201

\* C17 as claimed: a delete_movie that succeeds answers 204 with deleted =
\* true and leaves the store without the movie and with every other movie
\* unchanged; get_movie for an id that is absent raises 404; and the id of
\* the deleted movie is in the store again only once a movie with that id
\* is created
C17_DeletedStaysAbsent ==
    [][/\ \A r \in MovieRequests :
             DeleteStep(r) =>
                 /\ mreq'[r].response[1] = MovieResponse(204, None, "true")
                 /\ mreq[r].movie_id \notin Ids(movies')
                 /\ {m \in movies' : m.id # mreq[r].movie_id}
                      = {m \in movies : m.id # mreq[r].movie_id}
       /\ \A r \in MovieRequests :
             /\ LookupStep(r)
             /\ mreq'[r].op = "get"
             /\ mreq'[r].movie_id \notin Ids(movies)
             => mreq'[r].response[1].status_code = 404
       /\ \A r \in MovieRequests :
             /\ mreq[r].pc = "done"
             /\ mreq[r].op = "delete"
             /\ mreq[r].response = Some(MovieResponse(204, None, "true"))
             /\ mreq[r].movie_id \notin Ids(movies)
             /\ mreq[r].movie_id \in Ids(movies')
             => \E q \in MovieRequests : CreateStep(q, mreq[r].movie_id)]_vars

\* request r ends an update_movie with the response 200
UpdateStep(r) ==
    /\ mreq[r].op = "update"
    /\ mreq[r].pc = "commit"
    /\ mreq'[r].pc = "done"
    /\ mreq'[r].response[1].status_code = 200

\* C18 as claimed: after an update_movie that succeeds the store holds
\* exactly one record with id = movie_id, it carries the title, overview,
\* year, rating and category of the body, and the ids in the store are
\* those from before the update
C18_UpdateKeepsIds ==
    [][\A r \in MovieRequests :
          UpdateStep(r) =>
              /\ Cardinality(SelectById(movies', mreq[r].movie_id)) = 1
              /\ \A m \in SelectById(movies', mreq[r].movie_id) :
                    \A f \in Fields \ {"id"} : m[f] = mreq[r].body[1][f]
              /\ Ids(movies') = Ids(movies)]_vars

\* C19 as claimed: when update_movie_by_id runs and no movie with movie_id
\* exists, it returns None without raising and without writing, and
\* update_movie answers 404
C19_UpdateOfMissingIs404 ==
    [][\A r \in MovieRequests :
          /\ mreq[r].op = "update"
          /\ mreq[r].pc = "select"
          /\ mreq'[r].pc # "select"
          /\ mreq[r].movie_id \notin Ids(movies)
          => /\ mreq'[r].handler.exc.type = "HTTPException"
             /\ mreq'[r].handler.exc.status_code = 404
             /\ mreq'[r].response[1].status_code = 404
             /\ movies' = movies]_vars

====
